---- MODULE Spec2Model ----
(***************************************************************************)
(* A model of flosse/spotify-oauth: the callback parser                    *)
(* (src/src/callback.rs), the token exchange (src/src/callback.rs,         *)
(* src/src/util.rs, src/src/surf.rs, src/src/token.rs) and the             *)
(* authorization request (src/src/auth.rs).                                *)
(*                                                                         *)
(* Option<T> is a sequence of length at most one: None is <<>> and         *)
(* Some(x) is <<x>>.  Result<T, E> is a record with a tag "Ok" or "Err";   *)
(* a panic (an unwrap() of an Err) is the tag "Panic".                     *)
(***************************************************************************)
EXTENDS Integers, Sequences, FiniteSets, TLC

VARIABLES
    op,        \* the last callback operation: "init", "from_str" or "new"
    s,         \* the argument of the last from_str call
    parsed,    \* what the last from_str / new call returned
    client,    \* which token exchange runs: "convert_into_token" or "fetch_token"
    pc,        \* where the token exchange stands
    cb,        \* the SpotifyCallback the exchange was called with (moved in)
    posted,    \* the request handed to the transport, if any
    calls,     \* how many requests the transport has been handed
    answer,    \* what the transport delivered, if anything
    clock,     \* what Utc::now() returned to the exchange, if it was read
    outcome,   \* what the exchange returned to its caller, if it has returned
    args,      \* the arguments of the last SpotifyAuth::new call, if any
    built,     \* what the last SpotifyAuth::new call produced, if it was called
    rendered,  \* what the last authorize_url call returned, if it was called
    joined,    \* what the last scope_into_string call returned, if it was called
    scopeOp,   \* the last SpotifyScope conversion: "init", "to_string", "from_str", "round_trip"
    scopeArg,  \* its argument
    scopeRet,  \* what it returned
    slots,     \* the callback outcomes the caller holds, by slot
    runs,      \* the locals of each invocation of the token exchange
    sent       \* the requests the transport was handed, oldest first

callbackVars == <<op, s, parsed>>

exchangeVars == <<client, pc, cb, posted, calls, answer, clock, outcome>>

authVars == <<args, built, rendered, joined>>

scopeVars == <<scopeOp, scopeArg, scopeRet>>

flowVars == <<slots, runs, sent>>

vars == <<callbackVars, exchangeVars, authVars, scopeVars, flowVars>>

\* ------------------------------------------------------------------ bounds

\* The longest query string, in key=value pairs, a callback URL carries.
MaxPairs == 3

\* The longest `scope` string of a token response, in atoms (a word or one
\* whitespace character).
MaxScopeAtoms == 3

\* The longest scope list of an authorization request.
MaxScopes == 2

\* The longest word given to SpotifyScope::from_str, in runs.
MaxWordRuns == 2

\* How many invocations of the token exchange a caller makes, and how many
\* callback outcomes it obtains for them.
MaxExchanges == 2

\* ------------------------------------------------------------------ Option

None == <<>>

Some(x) == <<x>>

IsSome(o) == Len(o) = 1

\* ------------------------------------------------------- callback inputs

\* Query keys: the three the parser looks for and one it ignores.
QueryKeys == {"state", "code", "error", "foo"}

QueryValues == {"v1", "v2"}

QueryPair == QueryKeys \X QueryValues

SeqsUpTo(S, n) == UNION {[1..k -> S] : k \in 0..n}

\* A from_str argument: a string that is no URL, or a URL with its query as
\* the ordered list of decoded (key, value) pairs Url::query_pairs yields.
Inputs ==
    {[kind |-> "malformed", query |-> <<>>]}
        \cup {[kind |-> "url", query |-> q] : q \in SeqsUpTo(QueryPair, MaxPairs)}

NoInput == [kind |-> "none", query |-> <<>>]

\* --------------------------------------------------------------- errors

CtxNoStateNoResponse == "Does not contain any state or response type query parameters."

CtxNoState == "Does not contain any state type query parameters."

CtxNoResponse == "Does not contain any response type query parameters."

CallbackFailure(context) == [tag |-> "Err", variant |-> "CallbackFailure", context |-> context]

UrlError == [tag |-> "Err", variant |-> "UrlError", context |-> "url::ParseError"]

Ok(v) == [tag |-> "Ok", value |-> v]

\* ------------------------------------------------------ SpotifyCallback

SpotifyCallback(code, error, state) == [code |-> code, error |-> error, state |-> state]

\* Iterator::any over the pairs: some pair's key is one of `keys`.
AnyKey(pairs, keys) == \E i \in DOMAIN pairs : pairs[i][1] \in keys

\* Iterator::find over the pairs: the first pair whose key is one of `keys`.
RECURSIVE FindKey(_, _)
FindKey(pairs, keys) ==
    IF pairs = <<>> THEN None
    ELSE IF Head(pairs)[1] \in keys THEN Some(Head(pairs))
    ELSE FindKey(Tail(pairs), keys)

\* The mutant of Validate: the missing-state test made before the
\* missing-both test.
ValidateStateFirst(has_state, has_response) ==
    IF ~has_state THEN Some(CallbackFailure(CtxNoState))
    ELSE IF ~has_state /\ ~has_response THEN Some(CallbackFailure(CtxNoStateNoResponse))
    ELSE IF ~has_response THEN Some(CallbackFailure(CtxNoResponse))
    ELSE None

\* The three early returns of from_str, in the order of the code.
Validate(has_state, has_response) ==
    IF ~has_state /\ ~has_response THEN Some(CallbackFailure(CtxNoStateNoResponse))
    ELSE IF ~has_state THEN Some(CallbackFailure(CtxNoState))
    ELSE IF ~has_response THEN Some(CallbackFailure(CtxNoResponse))
    ELSE None

\* The mutant of SelectState: the last `state` pair instead of the first.
SelectStateLast(pairs) ==
    LET found == FindKey([i \in DOMAIN pairs |-> pairs[Len(pairs) + 1 - i]], {"state"})
    IN  IF found = None THEN <<"state", "">> ELSE found[1]

\* let state = match parsed.iter().find(|x| x.0 == "state") ...
SelectState(pairs) ==
    LET found == FindKey(pairs, {"state"})
    IN  IF found = None THEN <<"state", "">> ELSE found[1]

\* The mutant of SelectResponse: the first `code` pair when there is one,
\* and the first `error` pair otherwise.
SelectResponseCodeWins(pairs) ==
    LET code == FindKey(pairs, {"code"})
        error == FindKey(pairs, {"error"})
    IN  IF code # None THEN code[1]
        ELSE IF error # None THEN error[1]
        ELSE <<"error", "access_denied">>

\* let response = match parsed.iter().find(|x| x.0 == "error" || x.0 == "code") ...
SelectResponse(pairs) ==
    LET found == FindKey(pairs, {"error", "code"})
    IN  IF found = None THEN <<"error", "access_denied">> ELSE found[1]

\* The mutant of BuildCallback: the granted outcome keeps the default error.
BuildCallbackKeepsError(response, state) ==
    IF response[1] = "code"
        THEN Ok(SpotifyCallback(Some(response[2]), Some("access_denied"), state[2]))
    ELSE IF response[1] = "error"
        THEN Ok(SpotifyCallback(None, Some(response[2]), state[2]))
    ELSE CallbackFailure(CtxNoStateNoResponse)

\* The tail of from_str: the outcome built from the selected pairs.
BuildCallback(response, state) ==
    IF response[1] = "code"
        THEN Ok(SpotifyCallback(Some(response[2]), None, state[2]))
    ELSE IF response[1] = "error"
        THEN Ok(SpotifyCallback(None, Some(response[2]), state[2]))
    ELSE CallbackFailure(CtxNoStateNoResponse)

\* <SpotifyCallback as FromStr>::from_str
from_str(u) ==
    IF u.kind # "url" THEN UrlError
    ELSE LET pairs == u.query
             has_state == AnyKey(pairs, {"state"})
             has_response == AnyKey(pairs, {"error", "code"})
             failure == Validate(has_state, has_response)
         IN  IF failure # None THEN failure[1]
             ELSE BuildCallback(SelectResponse(pairs), SelectState(pairs))

\* SpotifyCallback::new
new(code, error, state) == SpotifyCallback(code, error, state)

OptionValues == {None} \cup {Some(v) : v \in QueryValues}

\* --------------------------------------------------------- SpotifyScope

\* The enum's variants with their strum serializations.
ScopeStrings ==
    [UserReadRecentlyPlayed |-> "user-read-recently-played",
     UserTopRead |-> "user-top-read",
     UserLibraryModify |-> "user-library-modify",
     UserLibraryRead |-> "user-library-read",
     PlaylistReadPrivate |-> "playlist-read-private",
     PlaylistModifyPublic |-> "playlist-modify-public",
     PlaylistModifyPrivate |-> "playlist-modify-private",
     PlaylistReadCollaborative |-> "playlist-read-collaborative",
     UserReadEmail |-> "user-read-email",
     UserReadBirthDate |-> "user-read-birthdate",
     UserReadPrivate |-> "user-read-private",
     UserReadPlaybackState |-> "user-read-playback-state",
     UserModifyPlaybackState |-> "user-modify-playback-state",
     UserReadCurrentlyPlaying |-> "user-read-currently-playing",
     AppRemoteControl |-> "app-remote-control",
     Streaming |-> "streaming",
     UserFollowRead |-> "user-follow-read",
     UserFollowModify |-> "user-follow-modify"]

SpotifyScope == DOMAIN ScopeStrings

\* A string is a sequence of atoms: an atom is one whitespace character or
\* a run of other characters.  Two neighbouring runs read as one longer word.
Whitespace == " "

ScopeAtoms == {Whitespace, "user-read-private", "user-read-email", "bogus"}

\* The mutant of ScopeFromStr: the case of the letters is ignored.
ScopeFromStrIgnoreCase(word) ==
    LET lower(a) == IF a \in {"Streaming", "STREAMING"} THEN "streaming" ELSE a
    IN  IF Len(word) = 1 /\ \E v \in SpotifyScope : ScopeStrings[v] = lower(word[1])
            THEN Some(CHOOSE v \in SpotifyScope : ScopeStrings[v] = lower(word[1]))
            ELSE None

\* <SpotifyScope as FromStr>::from_str on a word (a sequence of runs): the
\* variant whose serialization is exactly the word, or no variant.
ScopeFromStr(word) ==
    IF Len(word) = 1 /\ \E v \in SpotifyScope : ScopeStrings[v] = word[1]
        THEN Some(CHOOSE v \in SpotifyScope : ScopeStrings[v] = word[1])
        ELSE None

\* <SpotifyScope as Display>::to_string: the serialization, a word of one run.
ScopeToString(v) == <<ScopeStrings[v]>>

\* The runs the words given to SpotifyScope::from_str are made of: every
\* serialization, and runs that are none, among them a variant's name and
\* a serialization in other letter case.  No two or more of them read
\* together as a serialization.
WordRuns ==
    {ScopeStrings[v] : v \in SpotifyScope}
        \cup {"Streaming", "STREAMING", "user_read_email", "bogus"}

ScopeWords == SeqsUpTo(WordRuns, MaxWordRuns)

\* str::split_whitespace: the maximal runs of non-whitespace atoms, in order.
RECURSIVE SplitFrom(_, _, _)
SplitFrom(text, word, acc) ==
    IF text = <<>> THEN (IF word = <<>> THEN acc ELSE Append(acc, word))
    ELSE IF Head(text) = Whitespace
        THEN SplitFrom(Tail(text), <<>>, IF word = <<>> THEN acc ELSE Append(acc, word))
    ELSE SplitFrom(Tail(text), Append(word, Head(text)), acc)

split_whitespace(text) == SplitFrom(text, <<>>, <<>>)

\* ---------------------------------------------------------- SpotifyToken

SerdeError(what) == [tag |-> "Err", variant |-> "SerdeError", context |-> what]

TokenFailure(context) == [tag |-> "Err", variant |-> "TokenFailure", context |-> context]

SurfError == [tag |-> "Err", variant |-> "SurfError", context |-> "transport"]

Panic(what) == [tag |-> "Panic", context |-> what]

\* The `scope` member of a response body: absent, a JSON value that is no
\* string, or a string.
ScopeFields ==
    {[kind |-> "absent", text |-> <<>>], [kind |-> "null", text |-> <<>>]}
        \cup {[kind |-> "string", text |-> x] : x \in SeqsUpTo(ScopeAtoms, MaxScopeAtoms)}

\* The response bodies: a JSON object is a record of its members (an
\* Option: the member may be absent).  Bodies that hold every member a
\* token needs, with any `scope` member;
TokenBodies ==
    [json : {TRUE},
     access_token : {Some("A")},
     token_type : {Some("Bearer")},
     scope : ScopeFields,
     expires_in : {Some(60), Some(3600)},
     expires_at : {None, Some(7)},
     refresh_token : {Some("R")},
     error : {None}]

\* bodies of another shape: the access token is missing;
PartialBodies ==
    [json : {TRUE},
     access_token : {None},
     token_type : {Some("Bearer")},
     scope : {[kind |-> "absent", text |-> <<>>],
              [kind |-> "string", text |-> <<"user-read-email">>],
              [kind |-> "string", text |-> <<"bogus">>]},
     expires_in : {Some(60)},
     expires_at : {None},
     refresh_token : {Some("R")},
     error : {None}]

\* the body of an error response of the provider;
ErrorBody ==
    [json |-> TRUE, access_token |-> None, token_type |-> None,
     scope |-> [kind |-> "absent", text |-> <<>>], expires_in |-> None,
     expires_at |-> None, refresh_token |-> None, error |-> Some("invalid_grant")]

\* and text that is no JSON.
Garbage ==
    [json |-> FALSE, access_token |-> None, token_type |-> None,
     scope |-> [kind |-> "absent", text |-> <<>>], expires_in |-> None,
     expires_at |-> None, refresh_token |-> None, error |-> None]

Bodies == TokenBodies \cup PartialBodies \cup {ErrorBody, Garbage}

\* The mutant of deserialize_scope_field: the scopes come out in reverse.
deserialize_scope_field_reversed(field) ==
    IF field.kind = "string"
        THEN LET words == split_whitespace(field.text)
             IN  IF \E i \in DOMAIN words : ScopeFromStr(words[i]) = None
                     THEN Panic("SpotifyScope::from_str(x).unwrap()")
                     ELSE Ok([i \in DOMAIN words |->
                                ScopeFromStr(words[Len(words) + 1 - i])[1]])
        ELSE Ok(<<>>)

\* deserialize_scope_field on a `scope` member that is present.
deserialize_scope_field(field) ==
    IF field.kind = "string"
        THEN LET words == split_whitespace(field.text)
             IN  IF \E i \in DOMAIN words : ScopeFromStr(words[i]) = None
                     THEN Panic("SpotifyScope::from_str(x).unwrap()")
                     ELSE Ok([i \in DOMAIN words |-> ScopeFromStr(words[i])[1]])
        ELSE Ok(<<>>)

\* serde_json::from_str::<SpotifyToken>: the derived Deserialize visits the
\* members that are present (running deserialize_scope_field on `scope`) and
\* then reports a member that is missing; only the Option member expires_at
\* may be missing.
DecodeToken(body) ==
    IF ~body.json THEN SerdeError("expected value")
    ELSE LET scope == IF body.scope.kind = "absent" THEN SerdeError("missing field scope")
                      ELSE deserialize_scope_field(body.scope)
         IN  IF scope.tag = "Panic" THEN scope
             ELSE IF body.access_token = None THEN SerdeError("missing field access_token")
             ELSE IF body.token_type = None THEN SerdeError("missing field token_type")
             ELSE IF scope.tag = "Err" THEN scope
             ELSE IF body.expires_in = None THEN SerdeError("missing field expires_in")
             ELSE IF body.refresh_token = None THEN SerdeError("missing field refresh_token")
             ELSE Ok([access_token |-> body.access_token[1],
                      token_type |-> body.token_type[1],
                      scope |-> scope.value,
                      expires_in |-> body.expires_in[1],
                      expires_at |-> body.expires_at,
                      refresh_token |-> body.refresh_token[1]])

\* datetime_to_timestamp, with `now` the value Utc::now().timestamp() returns.
datetime_to_timestamp(now, elapsed) == now + elapsed

\* The mutant of SetExpiresAt: an expires_at the decode found is kept.
SetExpiresAtIfUnset(token, now) ==
    IF token.expires_at # None THEN token
    ELSE [token EXCEPT !.expires_at = Some(datetime_to_timestamp(now, token.expires_in))]

\* token.expires_at = Some(datetime_to_timestamp(token.expires_in));
SetExpiresAt(token, now) ==
    [token EXCEPT !.expires_at = Some(datetime_to_timestamp(now, token.expires_in))]

\* -------------------------------------------------------- token exchange

SPOTIFY_TOKEN_URL == "https://accounts.spotify.com/api/token"

ClientId == "id"

ClientSecret == "secret"

RedirectUri == "http://localhost:8000/callback"

Statuses == {200, 400, 500}

\* StatusCode::is_success
is_success(status) == status >= 200 /\ status < 300

\* What the transport delivers: a status with a body, or a status with a
\* body that cannot be read to its end.
Responses ==
    [kind : {"response"}, status : Statuses, readable : {TRUE}, body : Bodies]
        \cup [kind : {"response"}, status : Statuses, readable : {FALSE}, body : {Garbage}]

\* What the exchange holds when the transport failed instead.
TransportError == [kind |-> "error"]

Times == {1000, 2000}

\* The callbacks an exchange is called with: every combination new admits.
ExchangeCallbacks ==
    {new(code, error, "s1") : code \in {None, Some("v1")}, error \in {None, Some("v2")}}

\* The callbacks a TokenRequest is built from.
FetchCallbacks == {new(Some("v1"), None, "s1")}

\* The mutant of HasCode: the missing code is not noticed.
HasCodeAlways(callback) == TRUE

\* match self.code { None => return Err(..), Some(x) => x }
HasCode(callback) == callback.code # None

\* base64::encode: an encoding that tells any two texts apart.
Base64(text) == [base64 |-> text]

\* The mutant of PostRequest: the callback's state is sent along.
PostRequestWithState(callback) ==
    [method |-> "POST",
     url |-> SPOTIFY_TOKEN_URL,
     authorization |-> <<"Basic ", Base64(<<ClientId, ":", ClientSecret>>)>>,
     form |-> [grant_type |-> "authorization_code",
               code |-> IF callback.code = None THEN "" ELSE callback.code[1],
               redirect_uri |-> RedirectUri,
               state |-> callback.state]]

\* The request of convert_into_token / convert_callback_into_token, and of
\* TokenRequest::new as SurfClient::fetch_token posts it: the payload and
\* the header format!("Basic {}", base64::encode(format!("{}:{}", id, secret))).
PostRequest(callback) ==
    [method |-> "POST",
     url |-> SPOTIFY_TOKEN_URL,
     authorization |-> <<"Basic ", Base64(<<ClientId, ":", ClientSecret>>)>>,
     form |-> [grant_type |-> "authorization_code",
               code |-> IF callback.code = None THEN "" ELSE callback.code[1],
               redirect_uri |-> RedirectUri]]

\* The tail of convert_into_token / convert_callback_into_token, from the
\* read of the body to the return.
FinishConvert(r, now) ==
    IF ~r.readable THEN Panic("response.body_string().await.unwrap()")
    ELSE IF is_success(r.status)
        THEN LET token == DecodeToken(r.body)
             IN  IF token.tag = "Ok" THEN Ok(SetExpiresAt(token.value, now)) ELSE token
    ELSE TokenFailure("Failed to convert callback into token")

\* HttpClientError, as From<surf::Error> builds it.
HttpClientError(status) ==
    [tag |-> "Err", variant |-> "HttpClientError", status_code |-> Some(status)]

\* The tail of SurfClient::fetch_token, from the read of the body to the
\* return; an error that `?` converts into a surf::Error has status 500.
FinishFetch(r) ==
    IF ~r.readable THEN HttpClientError(500)
    ELSE IF ~is_success(r.status)
        THEN IF r.body.json /\ r.body.error # None
                THEN HttpClientError(r.status)
                ELSE HttpClientError(500)
    ELSE IF r.body.json THEN Ok(r.body)
    ELSE HttpClientError(500)

\* ----------------------------------------------------------- SpotifyAuth

SPOTIFY_AUTH_URL == "https://accounts.spotify.com/authorize"

\* Url::parse followed by Url::as_str on the strings a caller may pass as
\* redirect URI: the serialization of the parsed URL (a URL without a path
\* gets the path "/"), or nothing for a string that is no absolute URL.
UrlTable ==
    [x \in {"http://localhost:8000/callback", "http://localhost:8000",
            "/callback", "not a url", ""} |->
        CASE x = "http://localhost:8000/callback" -> Some("http://localhost:8000/callback")
          [] x = "http://localhost:8000" -> Some("http://localhost:8000/")
          [] OTHER -> None]

RedirectInputs == DOMAIN UrlTable

UrlParse(x) == UrlTable[x]

ClientSecrets == {"secret", "hunter2"}

ResponseTypes == {"code", "token"}

\* generate_random_string(20), as the strings it may return.
RandomStrings == {"q7Xk", "Zp3m"}

AuthScopes == {"Streaming", "UserReadEmail", "UserReadPrivate"}

\* Url::parse(&redirect_uri).context(UrlError).unwrap() in SpotifyAuth::new
NewRedirect(redirect_uri) ==
    IF UrlParse(redirect_uri) = None
        THEN Panic("Url::parse(&redirect_uri).context(UrlError).unwrap()")
        ELSE Ok(UrlParse(redirect_uri)[1])

\* SpotifyAuth::new
SpotifyAuthNew(client_id, client_secret, response_type, redirect_uri, scope, show_dialog, random) ==
    LET url == NewRedirect(redirect_uri)
    IN  IF url.tag # "Ok" THEN url
        ELSE Ok([client_id |-> client_id,
                 client_secret |-> client_secret,
                 response_type |-> response_type,
                 redirect_uri |-> url.value,
                 state |-> random,
                 scope |-> scope,
                 show_dialog |-> show_dialog])

\* The mutant of Join: a separator after every string, the last included.
RECURSIVE JoinTrailing(_)
JoinTrailing(strings) ==
    IF strings = <<>> THEN <<>>
    ELSE <<strings[1], Whitespace>> \o JoinTrailing(Tail(strings))

\* [String].join(" "): the strings with one separator between neighbours.
RECURSIVE Join(_)
Join(strings) ==
    IF strings = <<>> THEN <<>>
    ELSE IF Len(strings) = 1 THEN <<strings[1]>>
    ELSE <<strings[1], Whitespace>> \o Join(Tail(strings))

\* SpotifyAuth::scope_into_string
scope_into_string(self) == Join([i \in DOMAIN self.scope |-> ScopeStrings[self.scope[i]]])

\* bool::to_string
BoolToString(b) == IF b THEN "true" ELSE "false"

\* The mutant of authorize_url: the secret is appended as well.
authorize_url_with_secret(self) ==
    Ok([endpoint |-> SPOTIFY_AUTH_URL,
        query |-> << <<"client_id", self.client_id>>,
                     <<"response_type", self.response_type>>,
                     <<"redirect_uri", self.redirect_uri>>,
                     <<"state", self.state>>,
                     <<"scope", scope_into_string(self)>>,
                     <<"show_dialog", BoolToString(self.show_dialog)>>,
                     <<"client_secret", self.client_secret>> >>])

\* The mutant of authorize_url: the scope is appended before the state.
authorize_url_scope_first(self) ==
    Ok([endpoint |-> SPOTIFY_AUTH_URL,
        query |-> << <<"client_id", self.client_id>>,
                     <<"response_type", self.response_type>>,
                     <<"redirect_uri", self.redirect_uri>>,
                     <<"scope", scope_into_string(self)>>,
                     <<"state", self.state>>,
                     <<"show_dialog", BoolToString(self.show_dialog)>> >>])

\* SpotifyAuth::authorize_url: the endpoint with the appended pairs, as
\* the decoded (key, value) pairs of the returned URL's query.
authorize_url(self) ==
    Ok([endpoint |-> SPOTIFY_AUTH_URL,
        query |-> << <<"client_id", self.client_id>>,
                     <<"response_type", self.response_type>>,
                     <<"redirect_uri", self.redirect_uri>>,
                     <<"state", self.state>>,
                     <<"scope", scope_into_string(self)>>,
                     <<"show_dialog", BoolToString(self.show_dialog)>> >>])

\* ------------------------------------------------------------- actions

CallbackIdle ==
    /\ op = "init"
    /\ s = NoInput
    /\ parsed = None

ExchangeIdle ==
    /\ client = "none"
    /\ pc = "idle"
    /\ cb = None
    /\ posted = None
    /\ calls = 0
    /\ answer = None
    /\ clock = None
    /\ outcome = None

AuthIdle ==
    /\ args = None
    /\ built = None
    /\ rendered = None
    /\ joined = None

ScopeIdle ==
    /\ scopeOp = "init"
    /\ scopeArg = None
    /\ scopeRet = None

FlowIdle ==
    /\ slots = <<>>
    /\ runs = <<>>
    /\ sent = <<>>

Init == CallbackIdle /\ ExchangeIdle /\ AuthIdle /\ ScopeIdle /\ FlowIdle

FromStr ==
    \E u \in Inputs :
        /\ op = "init"
        /\ op' = "from_str"
        /\ s' = u
        /\ parsed' = Some(from_str(u))
        /\ UNCHANGED <<exchangeVars, authVars, scopeVars, flowVars>>

New ==
    \E code \in OptionValues, error \in OptionValues, state \in QueryValues :
        /\ op = "init"
        /\ op' = "new"
        /\ s' = NoInput
        /\ parsed' = Some(Ok(new(code, error, state)))
        /\ UNCHANGED <<exchangeVars, authVars, scopeVars, flowVars>>

Next == FromStr \/ New

Spec == Init /\ [][Next]_vars

\* ---- the token exchange

\* An exchange is about to be called with a callback: convert_into_token
\* with any callback, fetch_token with the TokenRequest of one that has a
\* code.
InitExchange ==
    /\ CallbackIdle
    /\ AuthIdle
    /\ ScopeIdle
    /\ FlowIdle
    /\ \/ client = "convert_into_token" /\ cb \in {Some(c) : c \in ExchangeCallbacks}
       \/ client = "fetch_token" /\ cb \in {Some(c) : c \in FetchCallbacks}
    /\ pc = "start"
    /\ posted = None
    /\ calls = 0
    /\ answer = None
    /\ clock = None
    /\ outcome = None

\* convert_into_token up to its first await: the payload, the early return
\* for a callback without a code, and the POST.
ConvertStart ==
    /\ client = "convert_into_token"
    /\ pc = "start"
    /\ IF HasCode(cb[1])
          THEN /\ posted' = Some(PostRequest(cb[1]))
               /\ calls' = calls + 1
               /\ pc' = "awaiting"
               /\ outcome' = outcome
          ELSE /\ outcome' = Some(TokenFailure("Spotify callback code failed to parse."))
               /\ pc' = "done"
               /\ UNCHANGED <<posted, calls>>
    /\ UNCHANGED <<scopeVars, flowVars, callbackVars, authVars, client, cb, answer, clock>>

\* SurfClient::fetch_token up to its first await: the POST of the
\* TokenRequest.
FetchStart ==
    /\ client = "fetch_token"
    /\ pc = "start"
    /\ posted' = Some(PostRequest(cb[1]))
    /\ calls' = calls + 1
    /\ pc' = "awaiting"
    /\ UNCHANGED <<scopeVars, flowVars, callbackVars, authVars, client, cb, answer, clock, outcome>>

\* The transport fails: `.await.context(SurfError)?` in convert_into_token,
\* `request.send().await?` in fetch_token (the surf::Error carries a status).
TransportFails ==
    /\ pc = "awaiting"
    /\ answer' = Some(TransportError)
    /\ outcome' = Some(IF client = "convert_into_token" THEN SurfError
                      ELSE HttpClientError(500))
    /\ pc' = "done"
    /\ UNCHANGED <<scopeVars, flowVars, callbackVars, authVars, client, cb, posted, calls, clock>>

\* The transport delivers a response.
TransportResponds ==
    \E r \in Responses :
        /\ pc = "awaiting"
        /\ answer' = Some(r)
        /\ pc' = "reading"
        /\ UNCHANGED <<scopeVars, flowVars, callbackVars, authVars, client, cb, posted, calls, clock, outcome>>

\* The mutant of ConvertFinish: after a non-success status the request is
\* posted once more.
ConvertFinishRetries ==
    \/ /\ client = "convert_into_token"
       /\ pc = "reading"
       /\ ~is_success(answer[1].status)
       /\ calls < 2
       /\ calls' = calls + 1
       /\ answer' = None
       /\ pc' = "awaiting"
       /\ UNCHANGED <<scopeVars, flowVars, callbackVars, authVars, client, cb, posted,
                      clock, outcome>>
    \/ \E now \in Times :
        /\ client = "convert_into_token"
        /\ pc = "reading"
        /\ clock' = clock
        /\ outcome' = Some(FinishConvert(answer[1], now))
        /\ pc' = "done"
        /\ UNCHANGED <<scopeVars, flowVars, callbackVars, authVars, client, cb, posted,
                       calls, answer>>

\* convert_into_token from the read of the body to its return.
ConvertFinish ==
    \E now \in Times :
        /\ client = "convert_into_token"
        /\ pc = "reading"
        /\ LET r == answer[1]
               decoded == r.readable /\ is_success(r.status) /\ DecodeToken(r.body).tag = "Ok"
           IN  /\ clock' = IF decoded THEN Some(now) ELSE clock
               /\ outcome' = Some(FinishConvert(r, now))
        /\ pc' = "done"
        /\ UNCHANGED <<scopeVars, flowVars, callbackVars, authVars, client, cb, posted, calls, answer>>

\* fetch_token from the read of the body to its return.
FetchFinish ==
    /\ client = "fetch_token"
    /\ pc = "reading"
    /\ outcome' = Some(FinishFetch(answer[1]))
    /\ pc' = "done"
    /\ UNCHANGED <<scopeVars, flowVars, callbackVars, authVars, client, cb, posted, calls, answer, clock>>

\* The caller drops the future at one of its awaits.
Abandon ==
    /\ pc \in {"awaiting", "reading"}
    /\ pc' = "cancelled"
    /\ UNCHANGED <<scopeVars, flowVars, callbackVars, authVars, client, cb, posted, calls, answer, clock, outcome>>

NextExchange ==
    \/ ConvertStart
    \/ FetchStart
    \/ TransportFails
    \/ TransportResponds
    \/ ConvertFinish
    \/ FetchFinish
    \/ Abandon

SpecExchange == InitExchange /\ [][NextExchange]_vars

\* ---- the authorization request

InitAuth == CallbackIdle /\ ExchangeIdle /\ AuthIdle /\ ScopeIdle /\ FlowIdle

\* A call of SpotifyAuth::new.
AuthNew ==
    \E redirect_uri \in RedirectInputs, client_secret \in ClientSecrets,
       response_type \in ResponseTypes, scope \in SeqsUpTo(AuthScopes, MaxScopes),
       show_dialog \in BOOLEAN, random \in RandomStrings :
        /\ args = None
        /\ args' = Some([client_id |-> ClientId, client_secret |-> client_secret,
                         response_type |-> response_type, redirect_uri |-> redirect_uri,
                         scope |-> scope, show_dialog |-> show_dialog])
        /\ built' = Some(SpotifyAuthNew(ClientId, client_secret, response_type, redirect_uri,
                                        scope, show_dialog, random))
        /\ UNCHANGED <<scopeVars, flowVars, callbackVars, exchangeVars, rendered, joined>>

\* A call of authorize_url on a request that was constructed.
AuthorizeUrl ==
    /\ built # None
    /\ built[1].tag = "Ok"
    /\ rendered' = Some(authorize_url(built[1].value))
    /\ UNCHANGED <<scopeVars, flowVars, callbackVars, exchangeVars, args, built, joined>>

\* A call of scope_into_string on a request that was constructed.
ScopeIntoString ==
    /\ built # None
    /\ built[1].tag = "Ok"
    /\ joined' = Some(scope_into_string(built[1].value))
    /\ UNCHANGED <<scopeVars, flowVars, callbackVars, exchangeVars, args, built, rendered>>

NextAuth == AuthNew \/ AuthorizeUrl \/ ScopeIntoString

SpecAuth == InitAuth /\ [][NextAuth]_vars

\* ---- the scope conversions

InitScope == CallbackIdle /\ ExchangeIdle /\ AuthIdle /\ ScopeIdle /\ FlowIdle

\* A call of to_string on a scope.
ScopeDisplay ==
    \E v \in SpotifyScope :
        /\ scopeOp = "init"
        /\ scopeOp' = "to_string"
        /\ scopeArg' = Some(v)
        /\ scopeRet' = Some(ScopeToString(v))
        /\ UNCHANGED <<callbackVars, exchangeVars, authVars, flowVars>>

\* A call of SpotifyScope::from_str on a word.
ScopeParse ==
    \E word \in ScopeWords :
        /\ scopeOp = "init"
        /\ scopeOp' = "from_str"
        /\ scopeArg' = Some(word)
        /\ scopeRet' = Some(ScopeFromStr(word))
        /\ UNCHANGED <<callbackVars, exchangeVars, authVars, flowVars>>

\* SpotifyScope::from_str on the to_string of a scope.
ScopeRoundTrip ==
    \E v \in SpotifyScope :
        /\ scopeOp = "init"
        /\ scopeOp' = "round_trip"
        /\ scopeArg' = Some(v)
        /\ scopeRet' = Some(ScopeFromStr(ScopeToString(v)))
        /\ UNCHANGED <<callbackVars, exchangeVars, authVars, flowVars>>

NextScope == ScopeDisplay \/ ScopeParse \/ ScopeRoundTrip

SpecScope == InitScope /\ [][NextScope]_vars

\* ---- a caller with several callbacks and several exchanges

Exchanges == 1..MaxExchanges

Slots == 1..MaxExchanges

\* The callback URLs the caller parses: two grants with different codes and
\* a denial.
FlowInputs ==
    {[kind |-> "url", query |-> <<<<"code", "v1">>, <<"state", "v1">>>>],
     [kind |-> "url", query |-> <<<<"state", "v1">>, <<"code", "v2">>>>],
     [kind |-> "url", query |-> <<<<"error", "v1">>, <<"state", "v2">>>>]}

\* What the transport delivers to these exchanges.
FlowResponses ==
    {r \in Responses :
        /\ r.readable
        /\ \/ /\ r.status = 200
              /\ r.body \in TokenBodies
              /\ r.body.expires_at = None
              /\ r.body.expires_in = Some(3600)
              /\ r.body.scope.kind = "string"
              /\ r.body.scope.text = <<"user-read-email">>
           \/ /\ r.status = 400
              /\ r.body = ErrorBody}

EmptySlot == [status |-> "empty", value |-> None]

IdleRun == [pc |-> "idle", slot |-> 0, cb |-> None, answer |-> None, now |-> None,
            outcome |-> None]

\* The mutant of CanStart: a callback that was moved into an exchange can
\* be passed to another one.
CanStartAgain(o) == slots[o].status \in {"held", "moved"}

\* convert_into_token(self, ..) and convert_callback_into_token(callback:
\* SpotifyCallback, ..) take the callback by value, and SpotifyCallback is
\* not Clone: only a callback the caller still holds can be passed.
CanStart(o) == slots[o].status = "held"

\* The mutant of LocalResponse: the response of whichever exchange was
\* answered is read.
SharedResponse(i) ==
    LET answered == {j \in Exchanges : j # i /\ runs[j].answer \in {Some(r) : r \in FlowResponses}}
    IN  IF answered # {}
            THEN runs[CHOOSE j \in answered : TRUE].answer[1]
            ELSE runs[i].answer[1]

\* `let mut response` of convert_into_token: a local of the invocation.
LocalResponse(i) == runs[i].answer[1]

InitFlow ==
    /\ CallbackIdle
    /\ ExchangeIdle
    /\ AuthIdle
    /\ ScopeIdle
    /\ slots = [o \in Slots |-> EmptySlot]
    /\ runs = [i \in Exchanges |-> IdleRun]
    /\ sent = <<>>

\* The caller parses a callback URL and holds the outcome.
FlowParse ==
    \E o \in Slots, u \in FlowInputs :
        /\ slots[o].status = "empty"
        /\ from_str(u).tag = "Ok"
        /\ slots' = [slots EXCEPT ![o] = [status |-> "held", value |-> Some(from_str(u).value)]]
        /\ UNCHANGED <<callbackVars, exchangeVars, authVars, scopeVars, runs, sent>>

\* The caller calls convert_into_token with a callback it holds: the
\* callback moves into the invocation, which runs to its first await.
FlowStart ==
    \E i \in Exchanges, o \in Slots :
        /\ runs[i].pc = "idle"
        /\ CanStart(o)
        /\ slots' = [slots EXCEPT ![o].status = "moved"]
        /\ LET callback == slots[o].value[1]
           IN  IF HasCode(callback)
                  THEN /\ runs' = [runs EXCEPT ![i] = [IdleRun EXCEPT !.pc = "awaiting",
                                        !.slot = o, !.cb = Some(callback)]]
                       /\ sent' = Append(sent, [run |-> i, slot |-> o,
                                                request |-> PostRequest(callback)])
                  ELSE /\ runs' = [runs EXCEPT ![i] = [IdleRun EXCEPT !.pc = "done",
                                        !.slot = o, !.cb = Some(callback),
                                        !.outcome = Some(TokenFailure(
                                            "Spotify callback code failed to parse."))]]
                       /\ sent' = sent
        /\ UNCHANGED <<callbackVars, exchangeVars, authVars, scopeVars>>

\* The transport fails the request of one exchange.
FlowFails ==
    \E i \in Exchanges :
        /\ runs[i].pc = "awaiting"
        /\ runs' = [runs EXCEPT ![i].pc = "done", ![i].answer = Some(TransportError),
                                ![i].outcome = Some(SurfError)]
        /\ UNCHANGED <<callbackVars, exchangeVars, authVars, scopeVars, slots, sent>>

\* The transport answers the request of one exchange.
FlowResponds ==
    \E i \in Exchanges, r \in FlowResponses :
        /\ runs[i].pc = "awaiting"
        /\ runs' = [runs EXCEPT ![i].pc = "reading", ![i].answer = Some(r)]
        /\ UNCHANGED <<callbackVars, exchangeVars, authVars, scopeVars, slots, sent>>

\* One exchange reads its response, decodes it and returns.
FlowFinish ==
    \E i \in Exchanges, now \in Times :
        /\ runs[i].pc = "reading"
        /\ runs' = [runs EXCEPT ![i].pc = "done", ![i].now = Some(now),
                                ![i].outcome = Some(FinishConvert(LocalResponse(i), now))]
        /\ UNCHANGED <<callbackVars, exchangeVars, authVars, scopeVars, slots, sent>>

\* The caller drops the future of one exchange at an await.
FlowAbandon ==
    \E i \in Exchanges :
        /\ runs[i].pc \in {"awaiting", "reading"}
        /\ runs' = [runs EXCEPT ![i].pc = "cancelled"]
        /\ UNCHANGED <<callbackVars, exchangeVars, authVars, scopeVars, slots, sent>>

NextFlow ==
    \/ FlowParse
    \/ FlowStart
    \/ FlowFails
    \/ FlowResponds
    \/ FlowFinish
    \/ FlowAbandon

SpecFlow == InitFlow /\ [][NextFlow]_vars

\* ============================================================== claims

\* What the claims say about a query, stated on the pairs themselves.
HasKey(q, k) == \E i \in DOMAIN q : q[i][1] = k

\* The value of the first pair of q whose key is k.
FirstValue(q, k) == q[CHOOSE i \in DOMAIN q : q[i][1] = k /\ \A j \in 1..(i - 1) : q[j][1] # k][2]

\* The key of the first pair of q that is a `code` or an `error` pair.
FirstResponseKey(q) ==
    q[CHOOSE i \in DOMAIN q :
        /\ q[i][1] \in {"code", "error"}
        /\ \A j \in 1..(i - 1) : q[j][1] \notin {"code", "error"}][1]

Returned == parsed[1]

\* C1: from_str of a string that is no URL fails with UrlError; of a URL
\* with neither a state nor a code/error key it fails with the missing-both
\* failure; otherwise without a state key with the missing-state failure;
\* otherwise without a code/error key with the missing-response failure;
\* otherwise it succeeds.  The four failures are pairwise distinct.
C1_ValidationOrder ==
    op = "from_str" =>
        LET q == s.query
            hasState == HasKey(q, "state")
            hasResponse == HasKey(q, "code") \/ HasKey(q, "error")
        IN  /\ s.kind = "malformed" => Returned = UrlError
            /\ s.kind = "url" /\ ~hasState /\ ~hasResponse
                => Returned = CallbackFailure(CtxNoStateNoResponse)
            /\ s.kind = "url" /\ ~hasState /\ hasResponse
                => Returned = CallbackFailure(CtxNoState)
            /\ s.kind = "url" /\ hasState /\ ~hasResponse
                => Returned = CallbackFailure(CtxNoResponse)
            /\ s.kind = "url" /\ hasState /\ hasResponse => Returned.tag = "Ok"
            /\ Cardinality({UrlError, CallbackFailure(CtxNoStateNoResponse),
                            CallbackFailure(CtxNoState), CallbackFailure(CtxNoResponse)}) = 4

\* C1 witness: a query with a response key and no state key was rejected
\* with the missing-state failure.
C1_Witness ==
    /\ op = "from_str"
    /\ s.kind = "url"
    /\ HasKey(s.query, "code")
    /\ ~HasKey(s.query, "state")
    /\ Returned = CallbackFailure(CtxNoState)

\* C2 as stated: with a state key and both a code and an error key, in any
\* order, from_str returns Granted with the first code value; Denied is
\* returned only when there is no code key.
C2_CodeWins ==
    (op = "from_str" /\ s.kind = "url" /\ HasKey(s.query, "state")) =>
        /\ (HasKey(s.query, "code") /\ HasKey(s.query, "error")) =>
                Returned = Ok(SpotifyCallback(Some(FirstValue(s.query, "code")), None,
                                              FirstValue(s.query, "state")))
        /\ (Returned.tag = "Ok" /\ Returned.value.error # None) => ~HasKey(s.query, "code")

\* C2 amended: with a state key and both a code and an error key, the pair
\* that comes first among the code and error pairs decides: Granted with
\* the first code value when it is a code pair, Denied with the first error
\* value when it is an error pair.
C2_FirstResponseWins ==
    (/\ op = "from_str"
     /\ s.kind = "url"
     /\ HasKey(s.query, "state")
     /\ HasKey(s.query, "code")
     /\ HasKey(s.query, "error")) =>
        IF FirstResponseKey(s.query) = "code"
            THEN Returned = Ok(SpotifyCallback(Some(FirstValue(s.query, "code")), None,
                                               FirstValue(s.query, "state")))
            ELSE Returned = Ok(SpotifyCallback(None, Some(FirstValue(s.query, "error")),
                                               FirstValue(s.query, "state")))

\* C2 witness: an error pair ahead of a code pair was parsed as Denied.
C2_Witness ==
    /\ op = "from_str"
    /\ s.kind = "url"
    /\ HasKey(s.query, "state")
    /\ HasKey(s.query, "code")
    /\ FirstResponseKey(s.query) = "error"
    /\ Returned.tag = "Ok"
    /\ Returned.value.code = None
    /\ Returned.value.error = Some(FirstValue(s.query, "error"))

\* C3: with a state key and exactly one kind of response key, from_str
\* returns Granted{first code value, first state value} for a code key and
\* Denied{first error value, first state value} for an error key, whatever
\* the order of the pairs and whatever later duplicates say.
C3_FirstOccurrence ==
    (op = "from_str" /\ s.kind = "url" /\ HasKey(s.query, "state")) =>
        /\ (HasKey(s.query, "code") /\ ~HasKey(s.query, "error")) =>
                Returned = Ok(SpotifyCallback(Some(FirstValue(s.query, "code")), None,
                                              FirstValue(s.query, "state")))
        /\ (HasKey(s.query, "error") /\ ~HasKey(s.query, "code")) =>
                Returned = Ok(SpotifyCallback(None, Some(FirstValue(s.query, "error")),
                                              FirstValue(s.query, "state")))

\* C3 witness: a code pair ahead of two state pairs with different values
\* was parsed as Granted with the first of the two state values.
C3_Witness ==
    /\ op = "from_str"
    /\ s.kind = "url"
    /\ Len(s.query) = 3
    /\ s.query[1][1] = "code"
    /\ s.query[2][1] = "state"
    /\ s.query[3][1] = "state"
    /\ s.query[2][2] # s.query[3][2]
    /\ Returned = Ok(SpotifyCallback(Some(s.query[1][2]), None, s.query[2][2]))

\* C4 as stated: every outcome, from from_str or from new, has exactly one
\* of code and error populated.
C4_ExactlyOneEverywhere ==
    (op \in {"from_str", "new"} /\ Returned.tag = "Ok") =>
        IsSome(Returned.value.code) # IsSome(Returned.value.error)

\* C4 amended: every outcome from_str returns has exactly one of code and
\* error populated, and its state is the value of a state pair of the
\* query; new stores the three values it is given, whatever they are.
C4_ExactlyOneFromStr ==
    /\ (op = "from_str" /\ Returned.tag = "Ok") =>
            /\ IsSome(Returned.value.code) # IsSome(Returned.value.error)
            /\ \E i \in DOMAIN s.query : s.query[i] = <<"state", Returned.value.state>>
    /\ op = "new" =>
            /\ Returned.tag = "Ok"
            /\ Returned.value.state \in QueryValues

\* C4 witness: from_str returned an outcome for a query holding a code
\* pair and an error pair.
C4_Witness ==
    /\ op = "from_str"
    /\ s.kind = "url"
    /\ HasKey(s.query, "code")
    /\ HasKey(s.query, "error")
    /\ Returned.tag = "Ok"
    /\ IsSome(Returned.value.code)
    /\ ~IsSome(Returned.value.error)

\* ---- claims about the token exchange (SpecExchange)

Done == pc = "done"

\* The status a returned error carries, if it carries one.
StatusOf(r) == IF "status_code" \in DOMAIN r THEN r.status_code ELSE None

Responded == answer # None /\ answer[1].kind = "response"

\* C5: convert_into_token called with a callback without a code hands no
\* request to the transport and returns TokenFailure.
C5_NoCodeNoTransport ==
    (client = "convert_into_token" /\ cb[1].code = None) =>
        /\ calls = 0
        /\ posted = None
        /\ answer = None
        /\ pc \in {"start", "done"}
        /\ Done => /\ outcome # None
                   /\ outcome[1].tag = "Err"
                   /\ outcome[1].variant = "TokenFailure"

\* C5 witness: the exchange of a callback that carries an error and no code
\* has returned TokenFailure.
C5_Witness ==
    /\ client = "convert_into_token"
    /\ cb[1].code = None
    /\ cb[1].error # None
    /\ Done
    /\ outcome = Some(TokenFailure("Spotify callback code failed to parse."))
    /\ calls = 0

\* C6 as stated: after a response with a non-success status the exchange
\* has failed with an error that carries exactly that status, whatever the
\* body, and the transport was handed one request.
C6_StatusCarried ==
    (Done /\ Responded /\ ~is_success(answer[1].status)) =>
        /\ outcome[1].tag = "Err"
        /\ StatusOf(outcome[1]) = Some(answer[1].status)
        /\ calls = 1

\* C7: a Token the exchange returns has expires_at set to the clock value
\* read at receipt plus its expires_in, whatever expires_at the body held;
\* and the caller sees no Token unless the exchange has returned.
C7_ExpiresAt ==
    /\ (client = "convert_into_token" /\ outcome # None /\ outcome[1].tag = "Ok") =>
            /\ Done
            /\ clock # None
            /\ outcome[1].value.expires_in = answer[1].body.expires_in[1]
            /\ outcome[1].value.expires_at = Some(clock[1] + answer[1].body.expires_in[1])
    /\ ~Done => outcome = None

\* C7 witness: a Token was returned for a body that held an expires_at of
\* its own, and the Token holds the computed one.
C7_Witness ==
    /\ client = "convert_into_token"
    /\ Done
    /\ outcome[1].tag = "Ok"
    /\ answer[1].body.expires_at = Some(7)
    /\ outcome[1].value.expires_at = Some(clock[1] + outcome[1].value.expires_in)
    /\ outcome[1].value.expires_at # Some(7)

\* A success response with a readable body that holds every member of a
\* token other than, perhaps, `scope`.
CompleteBut == 
    /\ client = "convert_into_token"
    /\ Done
    /\ Responded
    /\ answer[1].readable
    /\ is_success(answer[1].status)
    /\ answer[1].body.json
    /\ answer[1].body.access_token # None

ScopeField == answer[1].body.scope

NonBlank(text) == SelectSeq(text, LAMBDA a : a # Whitespace)

\* Every word of the text is the string of a scope: no two runs touch, and
\* every run is a serialization.
AllWordsKnown(text) ==
    /\ \A i \in 1..(Len(text) - 1) : text[i] = Whitespace \/ text[i + 1] = Whitespace
    /\ \A i \in DOMAIN text :
            text[i] = Whitespace \/ \E v \in SpotifyScope : ScopeStrings[v] = text[i]

\* The scopes are, in order, those of the words of the text.
ScopesOfText(scopes, text) ==
    NonBlank(text) = [i \in DOMAIN scopes |-> ScopeStrings[scopes[i]]]

\* C8 as stated: a scope string of known words decodes to their scopes in
\* order, and both an empty scope string and an absent scope member decode
\* to a Token without scopes.
C8_ScopeDecoding ==
    CompleteBut =>
        /\ (ScopeField.kind = "string" /\ AllWordsKnown(ScopeField.text)) =>
                /\ outcome[1].tag = "Ok"
                /\ ScopesOfText(outcome[1].value.scope, ScopeField.text)
        /\ ScopeField.kind = "absent" =>
                /\ outcome[1].tag = "Ok"
                /\ outcome[1].value.scope = <<>>

\* C8 amended: a scope string of known words decodes to their scopes in
\* order, the empty string to no scopes; a body without a scope member
\* does not decode: the exchange returns SerdeError.
C8_ScopeDecodingPresent ==
    CompleteBut =>
        /\ (ScopeField.kind = "string" /\ AllWordsKnown(ScopeField.text)) =>
                /\ outcome[1].tag = "Ok"
                /\ ScopesOfText(outcome[1].value.scope, ScopeField.text)
        /\ (ScopeField.kind = "string" /\ ScopeField.text = <<>>) =>
                /\ outcome[1].tag = "Ok"
                /\ outcome[1].value.scope = <<>>
        /\ ScopeField.kind = "absent" =>
                /\ outcome[1].tag = "Err"
                /\ outcome[1].variant = "SerdeError"

\* C8 witness: the scope string "user-read-private user-read-email" was
\* decoded to the two scopes in that order.
C8_Witness ==
    /\ CompleteBut
    /\ ScopeField.kind = "string"
    /\ ScopeField.text = <<"user-read-private", Whitespace, "user-read-email">>
    /\ outcome[1].tag = "Ok"
    /\ outcome[1].value.scope = <<"UserReadPrivate", "UserReadEmail">>

\* C9: an exchange that has ended has returned a Token or an error value to
\* its caller; it has not aborted.
C9_NeverAborts ==
    Done => /\ outcome # None
            /\ outcome[1].tag \in {"Ok", "Err"}

\* ---- claims about the authorization request (SpecAuth)

\* C10: SpotifyAuth::new with a redirect URI that is no absolute URL returns
\* UrlError and does not abort, and authorize_url of a request that was
\* constructed succeeds.
C10_TypedUrlError ==
    /\ (built # None /\ UrlParse(args[1].redirect_uri) = None) => built[1] = UrlError
    /\ built # None => built[1].tag \in {"Ok", "Err"}
    /\ rendered # None => rendered[1].tag = "Ok"

\* The request that was constructed.
Request == built[1].value

Rendered == rendered[1].value

\* C11: the URL authorize_url returns holds no parameter named after the
\* secret and no value that is the secret, and it is the URL of the same
\* request with any other secret.
C11_SecretNotRendered ==
    (rendered # None /\ rendered[1].tag = "Ok") =>
        /\ \A i \in DOMAIN Rendered.query :
                /\ Rendered.query[i][1] # "client_secret"
                /\ Rendered.query[i][1] # "scope" => Rendered.query[i][2] # Request.client_secret
                /\ Rendered.query[i][1] = "scope" =>
                        \A j \in DOMAIN Rendered.query[i][2] :
                            Rendered.query[i][2][j] # Request.client_secret
        /\ Rendered.endpoint # Request.client_secret
        /\ \A other \in ClientSecrets :
                authorize_url([Request EXCEPT !.client_secret = other]) = rendered[1]

\* C11 witness: a request built with the secret "hunter2" was rendered.
C11_Witness ==
    /\ rendered # None
    /\ rendered[1].tag = "Ok"
    /\ args[1].client_secret = "hunter2"
    /\ Request.client_secret = "hunter2"

\* C12: authorize_url returns the fixed endpoint followed by exactly the
\* six parameters client_id, response_type, redirect_uri, state, scope and
\* show_dialog, in this order, with the request's values; the call leaves
\* the request as it was, and a later call returns the same URL.
C12_RenderedUrl ==
    /\ [](rendered # None =>
            /\ rendered[1].tag = "Ok"
            /\ Rendered.endpoint = "https://accounts.spotify.com/authorize"
            /\ Len(Rendered.query) = 6
            /\ Rendered.query[1] = <<"client_id", args[1].client_id>>
            /\ Rendered.query[2] = <<"response_type", args[1].response_type>>
            /\ Rendered.query[3] = <<"redirect_uri", UrlParse(args[1].redirect_uri)[1]>>
            /\ Rendered.query[4][1] = "state"
            /\ Rendered.query[4][2] = Request.state
            /\ Rendered.query[4][2] \in RandomStrings
            /\ Rendered.query[5][1] = "scope"
            /\ NonBlank(Rendered.query[5][2])
                    = [i \in DOMAIN args[1].scope |-> ScopeStrings[args[1].scope[i]]]
            /\ Rendered.query[6] = <<"show_dialog",
                                     IF args[1].show_dialog THEN "true" ELSE "false">>)
    /\ [][built # None => built' = built]_vars
    /\ [][rendered # None => rendered' = rendered]_vars

\* C12 witness: a request with two scopes and show_dialog set was rendered.
C12_Witness ==
    /\ rendered # None
    /\ rendered[1].tag = "Ok"
    /\ Len(args[1].scope) = 2
    /\ args[1].show_dialog
    /\ args[1].response_type = "token"
    /\ Rendered.query[6] = <<"show_dialog", "true">>

\* C14: scope_into_string returns the strings of the request's scopes in
\* the order of the list, duplicates kept, with exactly one space between
\* neighbours and none before the first or after the last; the empty list
\* gives the empty string and a list of one scope its string alone.
C14_ScopeIntoString ==
    joined # None =>
        LET scope == args[1].scope
            text == joined[1]
        IN  /\ scope = <<>> => text = <<>>
            /\ Len(scope) = 1 => text = <<ScopeStrings[scope[1]]>>
            /\ scope # <<>> => Len(text) = 2 * Len(scope) - 1
            /\ \A i \in DOMAIN text :
                    IF i % 2 = 1 THEN text[i] = ScopeStrings[scope[(i + 1) \div 2]]
                    ELSE text[i] = Whitespace

\* C14 witness: the list of one scope twice was joined.
C14_Witness ==
    /\ joined # None
    /\ Len(args[1].scope) = 2
    /\ args[1].scope[1] = args[1].scope[2]
    /\ joined[1] = <<ScopeStrings[args[1].scope[1]], Whitespace, ScopeStrings[args[1].scope[1]]>>

\* ---- claims about the scope conversions (SpecScope)

\* C13: from_str of the to_string of a scope is that scope; from_str of a
\* word succeeds exactly when the word is, letter for letter, the string of
\* a scope, and then returns that scope; two scopes have two strings.
C13_ScopeBijection ==
    /\ scopeOp = "round_trip" => scopeRet[1] = Some(scopeArg[1])
    /\ scopeOp = "to_string" =>
            /\ scopeRet[1] = <<ScopeStrings[scopeArg[1]]>>
            /\ ScopeFromStr(scopeRet[1]) # None
    /\ scopeOp = "from_str" =>
            LET word == scopeArg[1]
                canonical == Len(word) = 1 /\ \E v \in SpotifyScope : ScopeStrings[v] = word[1]
            IN  /\ canonical <=> scopeRet[1] # None
                /\ canonical => ScopeStrings[scopeRet[1][1]] = word[1]
    /\ \A v, w \in SpotifyScope : v # w => ScopeStrings[v] # ScopeStrings[w]
    /\ Cardinality(SpotifyScope) = 18

\* C13 witness: from_str refused a serialization written with a capital.
C13_Witness ==
    /\ scopeOp = "from_str"
    /\ scopeArg[1] = <<"Streaming">>
    /\ scopeRet[1] = None

\* ---- more claims about the token exchange (SpecExchange)

\* C15: an exchange hands the transport at most one request: none for a
\* callback without a code, one for a callback with a code; and once the
\* transport has answered, whatever the answer, no further request follows.
C15_AtMostOneRequest ==
    /\ [](/\ calls \in {0, 1}
          /\ (calls = 1) = (posted # None)
          /\ cb[1].code = None => calls = 0
          /\ (cb[1].code # None /\ pc # "start") => calls = 1
          /\ answer # None => calls = 1)
    /\ [][pc # "start" => (calls' = calls /\ posted' = posted)]_vars

\* C15 witness: an exchange has returned after a non-success status, with
\* one request handed over.
C15_Witness ==
    /\ client = "convert_into_token"
    /\ Done
    /\ Responded
    /\ ~is_success(answer[1].status)
    /\ calls = 1

\* C17: the request handed to the transport is a POST to the token endpoint
\* with the form pairs grant_type, code and redirect_uri and no other, the
\* code being the callback's, and with the Authorization header "Basic "
\* followed by the base64 of "<client id>:<client secret>"; neither the
\* callback's state nor its error is in it.
C17_TokenRequest ==
    posted # None =>
        LET req == posted[1]
        IN  /\ req.method = "POST"
            /\ req.url = "https://accounts.spotify.com/api/token"
            /\ req.authorization = <<"Basic ", Base64(<<ClientId, ":", ClientSecret>>)>>
            /\ DOMAIN req.form = {"grant_type", "code", "redirect_uri"}
            /\ req.form.grant_type = "authorization_code"
            /\ req.form.code = cb[1].code[1]
            /\ req.form.redirect_uri = RedirectUri
            /\ \A k \in DOMAIN req.form :
                    /\ req.form[k] # cb[1].state
                    /\ cb[1].error # None => req.form[k] # cb[1].error[1]
            /\ DOMAIN req = {"method", "url", "authorization", "form"}

\* C17 witness: a callback holding a code and an error was exchanged, and
\* its request is on its way.
C17_Witness ==
    /\ posted # None
    /\ cb[1].code = Some("v1")
    /\ cb[1].error = Some("v2")
    /\ posted[1].form.code = "v1"
    /\ pc = "awaiting"

\* ---- claims about a caller's callbacks and exchanges (SpecFlow)

\* C16: a callback outcome that an exchange was started with is gone from
\* the caller for good, whatever becomes of the exchange: no two exchanges
\* were started with one outcome, and no outcome's code was handed to the
\* transport twice.
C16_ConsumedOnce ==
    /\ [](\A o \in Slots :
            /\ Cardinality({i \in Exchanges : runs[i].slot = o}) <= 1
            /\ Cardinality({k \in DOMAIN sent : sent[k].slot = o}) <= 1
            /\ (\E i \in Exchanges : runs[i].slot = o) => slots[o].status = "moved")
    /\ [][\A o \in Slots : slots[o].status = "moved" =>
            /\ slots'[o].status = "moved"
            /\ \A i \in Exchanges : runs[i].slot # o => runs'[i].slot # o]_vars

\* C16 witness: an exchange was started with an outcome and has failed,
\* while another exchange has not been started yet.
C16_Witness ==
    /\ runs[1].pc = "done"
    /\ runs[1].outcome[1].tag = "Err"
    /\ runs[1].slot = 1
    /\ slots[1].status = "moved"
    /\ Len(sent) = 1
    /\ runs[2].pc = "idle"

\* C18: under every interleaving, what an exchange returns is what
\* convert_into_token returns for its own response and its own clock
\* reading, (or for its own callback when that has no code), and a step of
\* one exchange changes nothing of another.
C18_Isolation ==
    /\ [](\A i \in Exchanges :
            runs[i].pc = "done" =>
                IF runs[i].cb[1].code = None
                    THEN runs[i].outcome =
                            Some(TokenFailure("Spotify callback code failed to parse."))
                ELSE IF runs[i].answer[1].kind = "error"
                    THEN runs[i].outcome = Some(SurfError)
                ELSE runs[i].outcome
                        = Some(FinishConvert(runs[i].answer[1], runs[i].now[1])))
    /\ [][\A i, j \in Exchanges : (i # j /\ runs'[i] # runs[i]) => runs'[j] = runs[j]]_vars

\* C18 witness: two exchanges with different codes have both returned, one
\* with a Token and one with an error, the second being answered first.
C18_Witness ==
    /\ runs[1].pc = "done"
    /\ runs[2].pc = "done"
    /\ runs[1].cb[1].code # runs[2].cb[1].code
    /\ runs[1].cb[1].code # None
    /\ runs[2].cb[1].code # None
    /\ sent[1].run = 1
    /\ runs[1].outcome[1].tag = "Ok"
    /\ runs[2].outcome[1].tag = "Err"
    /\ runs[1].now # runs[2].now

====
